---- MODULE Spec2Model ----
(***************************************************************************)
(* State-machine model of the engine-api ingestion pipeline:               *)
(*   - crawl(seed, {maxPages, maxDepth})        src/crawler.js             *)
(*   - allow(ip), the per-IP token bucket       src/unnamed/part_003       *)
(*   - POST /submit with robots check + backoff src/index.js               *)
(*   - POST /submit behind allow(ip)            src/unnamed/part_003       *)
(* Each component has its own specification (CrawlSpec, LimiterSpec,       *)
(* SubmitSpec, LimitedSubmitSpec); the variables of the other components   *)
(* stay at their initial values.                                           *)
(***************************************************************************)
EXTENDS Integers, Sequences, FiniteSets, TLC

VARIABLES
    \* ---- crawl(seed, {maxPages, maxDepth}) : src/crawler.js ----
    seed,        \* the seed URL string (argument)
    maxPages,    \* option maxPages
    maxDepth,    \* option maxDepth
    seen,        \* const seen = new Set()
    queue,       \* const queue = [{url, depth}]
    domain,      \* const domain = new URL(seed).hostname
    cpc,         \* position of the async function: loop | fetch | upsert | sleep | done
    cur,         \* the task {url, depth} taken by queue.shift()
    page,        \* the a[href] attributes of the page loaded by cheerio, in page order
    fetched,     \* history: the URLs passed to fetch(url), in order
    docs,        \* history: the documents POSTed to the index, in order
    seedLinks,   \* history: the distinct same-host pages the seed page links to, in page order
    allOk,       \* history: no fetch call has thrown or returned a non-HTML/non-2xx page
    outcome,     \* history: how the most recently processed task ended
    delayed,     \* history: sleep(1000) has run to its end since the last fetch(url) was issued
    inflight,    \* history: the number of network requests issued and not yet settled
    ended,       \* history: the number of outcomes the task last dequeued has ended in
    text,        \* doc.text of the document whose POST is in flight, as its number of
                 \*   whitespace-delimited tokens (0 while no POST is in flight)
    word_count,  \* doc.word_count of the document whose POST is in flight (0 while none is)
    \* ---- allow(ip), the token bucket : src/unnamed/part_003 ----
    SUBMIT_LIMIT, \* const SUBMIT_LIMIT = Number(process.env.SUBMIT_PER_MIN || 6)
    now,          \* the value Date.now() returns, in ms
    buckets,      \* const buckets = new Map() : ip -> {tokens, ts}
    lastCall,     \* history: the most recent allow(ip) call: its ip, whether a bucket existed,
                  \*          whether a minute or more had passed since b.ts, and the value returned
    burst,        \* history: per ip, the results of the calls made so far while no time has
                  \*          elapsed since its bucket was created (emptied once time has elapsed)
    recent,       \* history: per ip, the times of the admitted calls of the last minute
    \* ---- app.post("/submit") with robots check and backoff : src/index.js ----
    spc,          \* position of the handler: idle | robots | fetch1 | backoff | fetch2 | body | upsert | done
    sUrl,         \* req.body.url ("" when missing)
    robotsRes,    \* history: how the robots.txt fetch ended (throws | non2xx | ok) and the
                  \*          lines of the body the server sent
    robotsTxt,    \* const robotsTxt, as the lines robotsTxt.split("\n") yields
    attempts,     \* history: the number of fetch(url) calls issued for this request
    waits,        \* history: the number of 1500 ms backoff timers started for this request
    statuses,     \* history: the resp.status values received for this request, in order
    wordCount,    \* const word_count
    posted,       \* history: the documents POSTed to the index for this request
    upStatus,     \* history: how the POST to the index settled for this request
                  \*          (none | ok | not_ok | threw)
    responses,    \* history: the responses sent for this request
    index,        \* the external index: id -> the document stored under that id
    \* ---- app.post("/submit") behind allow(ip) : src/unnamed/part_003 ----
    handlers      \* per request being handled: the position of its handler
                  \*   (new | page | upsert | done | escaped), its ip and url, the number
                  \*   of tokens of its text, and as history whether allow(ip) admitted
                  \*   it, the documents it POSTed and the responses it sent

crawlVars == <<seed, maxPages, maxDepth, seen, queue, domain, cpc, cur, page,
               fetched, docs, seedLinks, allOk, outcome, delayed, inflight, ended,
               text, word_count>>

limiterVars == <<SUBMIT_LIMIT, now, buckets, lastCall, burst, recent>>

submitVars == <<spc, sUrl, robotsRes, robotsTxt, attempts, waits, statuses, wordCount,
                posted, upStatus, responses, index>>

vars == <<crawlVars, limiterVars, submitVars, handlers>>

----------------------------------------------------------------------------
(* Bounds of the model *)

MaxPagesBound == 3     \* maxPages ranges over 0..MaxPagesBound
MaxDepthBound == 2     \* maxDepth ranges over 0..MaxDepthBound
MaxLinks == 2          \* a page carries at most MaxLinks a[href] elements
MaxLimit == 3          \* SUBMIT_LIMIT ranges over 1..MaxLimit
TickMs == 20000        \* the clock is read at multiples of TickMs milliseconds
MaxNow == 4            \* the clock runs up to MaxNow ticks
MaxBurst == 5          \* the burst history keeps at most MaxBurst results
MaxRobotsLines == 2    \* a robots.txt has at most MaxRobotsLines lines
MaxRequests == 2       \* the rate-limited server handles at most MaxRequests requests
MaxCrawlWords == 2     \* a crawled page's text is empty or has MaxCrawlWords words

----------------------------------------------------------------------------
(* URLs and hrefs.  A URL string is a record <<scheme, host, path>>.        *)

MkUrl(s, h, p) == [scheme |-> s, host |-> h, path |-> p]

NoUrl == MkUrl("", "", "")

SeedHost == "a.example"
OtherHost == "b.example"

\* the seed string a caller passes: "https://a.example/"
Seeds == { MkUrl("https:", SeedHost, "/") }

\* an href attribute: empty, unparsable, relative path, or absolute URL
MkHref(k, s, h, p) == [kind |-> k, scheme |-> s, host |-> h, path |-> p]

Hrefs ==
    { MkHref("empty", "", "", ""),                    \* href=""
      MkHref("bad", "", "", ""),                      \* href="http://[" : new URL throws
      MkHref("rel", "", "", "/"),                     \* href="/"
      MkHref("rel", "", "", "/p1"),                   \* href="/p1"
      MkHref("abs", "https:", SeedHost, "/p2"),       \* href="https://a.example/p2"
      MkHref("abs", "https:", OtherHost, "/p1"),      \* href="https://b.example/p1"
      MkHref("abs", "ftp:", SeedHost, "/p1") }        \* href="ftp://a.example/p1"

\* the sequences over S of length at most n
SeqsUpTo(S, n) == UNION { [1..k -> S] : k \in 0..n }

\* the link lists a fetched page can carry
LinkLists == SeqsUpTo(Hrefs, MaxLinks)

\* new URL(href, base) throws on an unparsable href
UrlParses(href) == href.kind # "bad"

\* new URL(href, base).href : resolve href against the page URL, normalised
ResolveHref(href, base) ==
    IF href.kind = "abs"
    THEN MkUrl(href.scheme, href.host, IF href.path = "" THEN "/" ELSE href.path)
    ELSE MkUrl(base.scheme, base.host, href.path)

\* new URL(u).hostname
Hostname(u) == u.host

\* u.protocol.startsWith("http")
ProtocolIsHttp(u) == u.scheme \in {"http:", "https:"}

----------------------------------------------------------------------------
(* crawl: the pure pieces of the loop *)

\* mutant: the page cap compared with <= instead of <
LoopCond_OffByOne(q, s, mp) == Len(q) > 0 /\ Cardinality(s) <= mp

\* while(queue.length && seen.size < maxPages)
LoopCond(q, s, mp) == Len(q) > 0 /\ Cardinality(s) < mp

\* mutant: the visited test on dequeue is dropped
AlreadySeen_Never(url, s) == FALSE

\* seen.has(url)
AlreadySeen(url, s) == url \in s

\* mutant: queue.pop() instead of queue.shift()
Shift_Pop(q) == [task |-> q[Len(q)], rest |-> SubSeq(q, 1, Len(q) - 1)]

\* mutant: queue[0] read without removing it
Shift_Peek(q) == [task |-> Head(q), rest |-> q]

\* queue.shift() : the task returned and the queue left behind
Shift(q) == [task |-> Head(q), rest |-> Tail(q)]

\* mutant: the hostname test dropped
Enqueueable_AnyHost(u, dom, s) == u \notin s /\ ProtocolIsHttp(u)

\* u.hostname===domain && !seen.has(u.href) && u.protocol.startsWith("http")
Enqueueable(u, dom, s) == Hostname(u) = dom /\ u \notin s /\ ProtocolIsHttp(u)

\* mutant: links followed from pages at depth maxDepth as well
ShouldExpand_Inclusive(depth, md) == depth <= md

\* if(depth<maxDepth)
ShouldExpand(depth, md) == depth < md

\* mutant: links enqueued at the depth of the page they were found on
ChildDepth_Same(depth) == depth

\* depth+1
ChildDepth(depth) == depth + 1

\* $("a[href]").each(...) : the tasks pushed for the links of one page
RECURSIVE LinkTasks(_, _, _, _, _)
LinkTasks(links, base, depth, dom, s) ==
    IF links = <<>> THEN <<>>
    ELSE LET href == Head(links)
             rest == LinkTasks(Tail(links), base, depth, dom, s)
         IN  IF href.kind = "empty" THEN rest                \* if(!href) return
             ELSE IF ~UrlParses(href) THEN rest              \* catch{}
             ELSE LET u == ResolveHref(href, base)
                  IN  IF Enqueueable(u, dom, s)
                      THEN <<[url |-> u, depth |-> ChildDepth(depth)]>> \o rest
                      ELSE rest

\* the string of a URL record
UrlString(u) == u.scheme \o "//" \o u.host \o u.path

\* "u_"+sha1(url) : one id per url string
CrawlId(url) == "u_" \o UrlString(url)

\* mutant: an exception ends the run (no try/catch inside the loop)
OnFailure_Abort == "done"

\* catch(e){ console.error(...) } : the loop goes on with its next iteration
OnFailure == "loop"

\* mutant: the POST to the index is not awaited; the function goes on to the
\* delay while the request is in flight
AwaitPost_FireAndForget == "sleep"

\* await fetch(MEILI_URL/...) : the function is suspended until the POST settles
AwaitPost == "upsert"

\* console.log("Crawl done. Indexed ${seen.size} pages.") : the count reported
ReportedCount(s) == Cardinality(s)

\* the numbers of whitespace-delimited tokens of $("body").text(), collapsed and
\* trimmed (crawler.js:33), for the pages of the model: a page with links has a
\* text of MaxCrawlWords tokens, a page without links has that or the empty text
CrawlTexts(links) == IF links = <<>> THEN {0, MaxCrawlWords} ELSE {MaxCrawlWords}

\* mutant: an empty text counts no word
CrawlWordCount_EmptyIsZero(n) == n

\* text.split(" ").length for a collapsed, trimmed text of n tokens
\* (crawler.js:34): "".split(" ") is [""], of length 1
CrawlWordCount(n) == IF n = 0 THEN 1 ELSE n

\* the document built at crawler.js:36-44 (fields the claims read)
CrawlDoc(url, depth, dom) ==
    [id |-> CrawlId(url), url |-> url, depth |-> depth, domain |-> dom]

\* the distinct http(s) pages of the seed's host, other than the seed string itself,
\* that a link list points to, in order of first appearance
RECURSIVE SameHostPages(_, _, _)
SameHostPages(links, base, acc) ==
    IF links = <<>> THEN acc
    ELSE LET href == Head(links)
             u == ResolveHref(href, base)
             isPage == /\ href.kind \in {"rel", "abs"}
                       /\ u.host = base.host
                       /\ u.scheme \in {"http:", "https:"}
                       /\ u # base
                       /\ \A i \in 1..Len(acc) : acc[i] # u
         IN  SameHostPages(Tail(links), base, IF isPage THEN Append(acc, u) ELSE acc)

----------------------------------------------------------------------------
(* allow(ip): the token bucket of src/unnamed/part_003:38-55 (the same code  *)
(* stands at part_000:27-37 and part_004:26-36).  b.tokens is a float; the   *)
(* model keeps b.tokens * 60000 as an integer, so that the refill            *)
(* deltaMin * SUBMIT_LIMIT = (now - b.ts) * SUBMIT_LIMIT / 60000 is exact.   *)

\* the 60000 ms of (now - b.ts) / 60000
MsPerMin == 60000

\* one token, in the model's unit
OneToken == MsPerMin

\* the client identifiers: a forwarded address and the "na" sentinel
Ips == {"10.0.0.1", "na"}

Min(a, b) == IF a <= b THEN a ELSE b

\* mutant: the refill is not clamped to the capacity
Refill_NoClamp(tokens, deltaMs, limit) == tokens + deltaMs * limit

\* mutant: the refill accrues at half the rate
Refill_HalfRate(tokens, deltaMs, limit) ==
    Min(limit * OneToken, tokens + (deltaMs * limit) \div 2)

\* Math.min(SUBMIT_LIMIT, b.tokens + deltaMin * SUBMIT_LIMIT)
Refill(tokens, deltaMs, limit) == Min(limit * OneToken, tokens + deltaMs * limit)

\* mutant: a bucket holding exactly one token is denied
Denied_AtOne(tokens) == tokens <= OneToken

\* if (b.tokens < 1)
Denied(tokens) == tokens < OneToken

\* mutant: the token is not taken
Consume_Nothing(tokens) == tokens

\* b.tokens -= 1
Consume(tokens) == tokens - OneToken

\* mutant: the stored bucket is not read; every call starts from a full one
GetBucket_Fresh(bs, ip, t, limit) == [tokens |-> limit * OneToken, ts |-> t]

\* buckets.get(ip) || { tokens: SUBMIT_LIMIT, ts: now }
GetBucket(bs, ip, t, limit) ==
    IF ip \in DOMAIN bs THEN bs[ip] ELSE [tokens |-> limit * OneToken, ts |-> t]

\* mutant: a denied call stores the time but not the refill
AllowResult_RefillLostOnDeny(bs, ip, t, limit) ==
    LET b == GetBucket(bs, ip, t, limit)
        refilled == Refill(b.tokens, t - b.ts, limit)
    IN  IF Denied(refilled)
        THEN [ok |-> FALSE, bucket |-> [tokens |-> b.tokens, ts |-> t]]
        ELSE [ok |-> TRUE, bucket |-> [tokens |-> Consume(refilled), ts |-> t]]

\* allow(ip) at time t: the value returned and the bucket stored by buckets.set
AllowResult(bs, ip, t, limit) ==
    LET b == GetBucket(bs, ip, t, limit)
        refilled == Refill(b.tokens, t - b.ts, limit)
    IN  IF Denied(refilled)
        THEN [ok |-> FALSE, bucket |-> [tokens |-> refilled, ts |-> t]]
        ELSE [ok |-> TRUE, bucket |-> [tokens |-> Consume(refilled), ts |-> t]]

NoCall == [ip |-> "", existed |-> FALSE, waited |-> FALSE, ok |-> FALSE]

\* the limiter at rest, for the specifications of the other components
LimiterIdle ==
    /\ SUBMIT_LIMIT = 6
    /\ now = 0
    /\ buckets = [ip \in {} |-> 0]
    /\ lastCall = NoCall
    /\ burst = [ip \in Ips |-> <<>>]
    /\ recent = [ip \in Ips |-> <<>>]

----------------------------------------------------------------------------
(* POST /submit of src/index.js:91-158: the pure pieces *)

\* the url values a request body carries: missing, unparsable, and two pages
SubmitUrls == {"", "not a url", "https://a.example/p1", "https://b.example/"}

\* new URL(url) does not throw
UrlValid(url) == url \in {"https://a.example/p1", "https://b.example/"}

\* the statuses a fetch of the target returns
Statuses == {200, 404, 429, 503}

\* resp.ok
RespOk(status) == status >= 200 /\ status <= 299

\* mutant: only 429 triggers the backoff
IsBackoffStatus_Only429(status) == status = 429

\* [429, 503].includes(resp.status)
IsBackoffStatus(status) == status \in {429, 503}

\* mutant: the retry is itself retried after another 429/503
AfterStatus_RetryAgain(attempt, status) ==
    IF IsBackoffStatus(status) THEN "backoff"
    ELSE IF ~RespOk(status) THEN "http_error"
    ELSE "body"

\* index.js:105-111: what follows the status of fetch number attempt
AfterStatus(attempt, status) ==
    IF attempt = 1 /\ IsBackoffStatus(status) THEN "backoff"
    ELSE IF attempt = 2 /\ IsBackoffStatus(status) THEN "rate_limited"
    ELSE IF ~RespOk(status) THEN "http_error"
    ELSE "body"

\* the lines of a robots.txt
RobotsLines == {"User-agent: *", "Disallow: /", "  DISALLOW: /\r", "Disallow: /private"}

\* l.trim().toLowerCase()
TrimLower(l) ==
    CASE l = "User-agent: *" -> "user-agent: *"
      [] l = "Disallow: /" -> "disallow: /"
      [] l = "  DISALLOW: /\r" -> "disallow: /"
      [] l = "Disallow: /private" -> "disallow: /private"
      [] OTHER -> l

\* robotsTxt.split("\n").some(l => l.trim().toLowerCase() === "disallow: /")
DisallowAll(lines) == \E i \in 1..Len(lines) : TrimLower(lines[i]) = "disallow: /"

\* the outcomes of fetch(`${u.origin}/robots.txt`): the fetch throws, or a
\* response arrives with a 2xx or another status and a body
RobotsOutcomes ==
    { [res |-> "throws", body |-> <<"">>] }
    \cup { [res |-> st, body |-> ls] :
              st \in {"non2xx", "ok"},
              ls \in UNION { [1..k -> RobotsLines] : k \in 1..MaxRobotsLines } }

\* no robots.txt fetch has settled
NoRobots == [res |-> "none", body |-> <<>>]

\* mutant: the body of a non-2xx answer is read as well
RobotsText_AnyStatus(r) == IF r.res = "throws" THEN <<"">> ELSE r.body

\* .then(r => r.ok ? r.text() : "").catch(() => ""), split("\n")
RobotsText(r) == IF r.res = "ok" THEN r.body ELSE <<"">>

\* the minimum word_count of index.js:125
MinWords == 30

\* the numbers of whitespace-delimited tokens of the extracted text
TokenCounts == {0, MinWords - 1, MinWords}

\* text ? text.split(/\s+/).length : 0, for a trimmed, whitespace-collapsed text
\* of n tokens ("".split(/\s+/) has length 1)
WordCount(n) == IF n = 0 THEN 0 ELSE n

\* mutant: the id is drawn per request, from the url and the size of the index
SafeId_PerRequest(url) == "u_" \o url \o "#" \o ToString(Cardinality(DOMAIN index))

\* mutant: the url does not enter the id
SafeId_Constant(url) == "u_"

\* safeId(url) = "u_" + sha1(url): one id per url string
SafeId(url) == "u_" \o url

\* the document built at index.js:130-142 (fields the claims read)
SubmitDoc(url, wc) == [id |-> SafeId(url), url |-> url, word_count |-> wc]

\* the index after POST /indexes/pages/documents [doc] has succeeded: the
\* document is stored under its id, replacing the one stored there
Upsert(idx, doc) ==
    [i \in DOMAIN idx \cup {doc.id} |-> IF i = doc.id THEN doc ELSE idx[i]]

\* res.status(code).json({status, reason})
Response(code, status, reason) == [code |-> code, status |-> status, reason |-> reason]

\* the handler at rest, for the specifications of the other components
SubmitIdle ==
    /\ spc = "idle" /\ sUrl = "" /\ robotsRes = NoRobots /\ robotsTxt = <<>>
    /\ attempts = 0 /\ waits = 0 /\ statuses = <<>> /\ wordCount = 0
    /\ posted = <<>> /\ upStatus = "none" /\ responses = <<>> /\ index = <<>>

\* the rate-limited server with no request
HandlersIdle == handlers = <<>>

----------------------------------------------------------------------------
(* crawl: the state machine *)

CrawlInit ==
    /\ seed \in Seeds
    /\ maxPages \in 0..MaxPagesBound
    /\ maxDepth \in 0..MaxDepthBound
    /\ seen = {}
    /\ queue = <<[url |-> seed, depth |-> 0]>>
    /\ domain = Hostname(seed)
    /\ cpc = "loop"
    /\ cur = [url |-> NoUrl, depth |-> 0]
    /\ page = <<>>
    /\ fetched = <<>>
    /\ docs = <<>>
    /\ seedLinks = <<>>
    /\ allOk = TRUE
    /\ outcome = "none"
    /\ delayed = FALSE
    /\ inflight = 0
    /\ ended = 0
    /\ text = 0 /\ word_count = 0
    /\ LimiterIdle
    /\ SubmitIdle
    /\ HandlersIdle

\* the while condition is false: console.log("Crawl done. Indexed ${seen.size} pages.")
CrawlExit ==
    /\ UNCHANGED <<limiterVars, submitVars, handlers>>
    /\ UNCHANGED <<text, word_count>>
    /\ cpc = "loop"
    /\ ~LoopCond(queue, seen, maxPages)
    /\ cpc' = "done"
    /\ UNCHANGED <<seed, maxPages, maxDepth, seen, queue, domain, cur, page,
                   fetched, docs, seedLinks, allOk, outcome,
                   delayed, inflight, ended>>

\* queue.shift(); if(seen.has(url)) continue;
DequeueSkip ==
    /\ UNCHANGED <<limiterVars, submitVars, handlers>>
    /\ UNCHANGED <<text, word_count>>
    /\ cpc = "loop"
    /\ LoopCond(queue, seen, maxPages)
    /\ AlreadySeen(Shift(queue).task.url, seen)
    /\ queue' = Shift(queue).rest
    /\ UNCHANGED <<seed, maxPages, maxDepth, seen, domain, cpc, cur, page,
                   fetched, docs, seedLinks, allOk, outcome,
                   delayed, inflight, ended>>

\* queue.shift(); seen.add(url); fetch(url, ...) is issued
DequeueVisit ==
    /\ UNCHANGED <<limiterVars, submitVars, handlers>>
    /\ UNCHANGED <<text, word_count>>
    /\ cpc = "loop"
    /\ LoopCond(queue, seen, maxPages)
    /\ ~AlreadySeen(Shift(queue).task.url, seen)
    /\ queue' = Shift(queue).rest
    /\ cur' = Shift(queue).task
    /\ seen' = seen \cup {Shift(queue).task.url}
    /\ fetched' = Append(fetched, Shift(queue).task.url)
    /\ cpc' = "fetch"
    /\ UNCHANGED <<seed, maxPages, maxDepth, domain, page, docs, seedLinks, allOk,
                   outcome>>
    /\ delayed' = FALSE
    /\ inflight' = inflight + 1
    /\ ended' = 0

\* await fetch(url) or await res.text() throws: catch(e), next iteration
FetchThrows ==
    /\ UNCHANGED <<limiterVars, submitVars, handlers>>
    /\ UNCHANGED <<text, word_count>>
    /\ cpc = "fetch"
    /\ cpc' = OnFailure
    /\ allOk' = FALSE
    /\ outcome' = "fetch_threw"
    /\ UNCHANGED <<seed, maxPages, maxDepth, seen, queue, domain, cur, page,
                   fetched, docs, seedLinks, delayed>>
    /\ inflight' = inflight - 1
    /\ ended' = ended + 1

\* if(!res.ok || !content-type.includes("text/html")) continue;
FetchNotHtml ==
    /\ UNCHANGED <<limiterVars, submitVars, handlers>>
    /\ UNCHANGED <<text, word_count>>
    /\ cpc = "fetch"
    /\ cpc' = "loop"
    /\ allOk' = FALSE
    /\ outcome' = "not_html"
    /\ UNCHANGED <<seed, maxPages, maxDepth, seen, queue, domain, cur, page,
                   fetched, docs, seedLinks, delayed>>
    /\ inflight' = inflight - 1
    /\ ended' = ended + 1

\* the page is loaded, the document built and its POST to the index issued
FetchOk ==
    /\ UNCHANGED <<limiterVars, submitVars, handlers>>
    /\ cpc = "fetch"
    /\ \E links \in LinkLists :
          /\ page' = links
          /\ \E n \in CrawlTexts(links) :
                text' = n /\ word_count' = CrawlWordCount(n)
          /\ seedLinks' = IF Len(fetched) = 1
                          THEN SameHostPages(links, cur.url, <<>>)
                          ELSE seedLinks
    /\ docs' = Append(docs, CrawlDoc(cur.url, cur.depth, domain))
    /\ cpc' = AwaitPost
    /\ UNCHANGED <<seed, maxPages, maxDepth, seen, queue, domain, cur,
                   fetched, allOk, outcome, delayed, ended>>
    /\ inflight' = (inflight - 1) + 1

\* await fetch(MEILI_URL/...) throws: catch(e), next iteration
UpsertThrows ==
    /\ UNCHANGED <<limiterVars, submitVars, handlers>>
    /\ text' = 0 /\ word_count' = 0
    /\ cpc = "upsert"
    /\ cpc' = OnFailure
    /\ allOk' = FALSE
    /\ outcome' = "upsert_threw"
    /\ page' = <<>>
    /\ UNCHANGED <<seed, maxPages, maxDepth, seen, queue, domain, cur,
                   fetched, docs, seedLinks, delayed>>
    /\ inflight' = inflight - 1
    /\ ended' = ended + 1

\* the POST returns (its status is not read); the links are enqueued; sleep(1000) starts
UpsertReturns ==
    /\ UNCHANGED <<limiterVars, submitVars, handlers>>
    /\ text' = 0 /\ word_count' = 0
    /\ cpc = "upsert"
    /\ \E ok \in BOOLEAN : outcome' = IF ok THEN "indexed" ELSE "index_error"
    /\ queue' = IF ShouldExpand(cur.depth, maxDepth)
                THEN queue \o LinkTasks(page, cur.url, cur.depth, domain, seen)
                ELSE queue
    /\ cpc' = "sleep"
    /\ UNCHANGED <<seed, maxPages, maxDepth, seen, domain, cur, page,
                   fetched, docs, seedLinks, allOk, delayed>>
    /\ inflight' = inflight - 1
    /\ ended' = ended + 1

\* await sleep(1000) ends; the iteration's page goes out of scope
SleepDone ==
    /\ UNCHANGED <<limiterVars, submitVars, handlers>>
    /\ UNCHANGED <<text, word_count>>
    /\ cpc = "sleep"
    /\ cpc' = "loop"
    /\ page' = <<>>
    /\ UNCHANGED <<seed, maxPages, maxDepth, seen, queue, domain, cur,
                   fetched, docs, seedLinks, allOk, outcome,
                   inflight, ended>>
    /\ delayed' = TRUE

CrawlNext ==
    \/ CrawlExit
    \/ DequeueSkip
    \/ DequeueVisit
    \/ FetchThrows
    \/ FetchNotHtml
    \/ FetchOk
    \/ UpsertThrows
    \/ UpsertReturns
    \/ SleepDone

CrawlSpec == CrawlInit /\ [][CrawlNext]_vars

\* the crawler at rest, for the specifications of the other components
CrawlIdle ==
    /\ seed = NoUrl /\ maxPages = 0 /\ maxDepth = 0
    /\ seen = {} /\ queue = <<>> /\ domain = ""
    /\ cpc = "idle" /\ cur = [url |-> NoUrl, depth |-> 0] /\ page = <<>>
    /\ fetched = <<>> /\ docs = <<>> /\ seedLinks = <<>>
    /\ allOk = TRUE /\ outcome = "none"
    /\ delayed = FALSE /\ inflight = 0 /\ ended = 0
    /\ text = 0 /\ word_count = 0

\* every await of the crawl settles (the fetch and the POST return or throw, the
\* timer fires) and the synchronous code between two awaits runs to the next await
FairCrawlSpec == CrawlSpec /\ WF_vars(CrawlNext)

----------------------------------------------------------------------------
(* Claims about crawl *)

\* the URLs of a sequence of tasks or documents
Urls(sq) == [i \in 1..Len(sq) |-> sq[i].url]

\* the position of u in the sequence sq, 0 when absent
IndexOf(sq, u) == IF \E i \in 1..Len(sq) : sq[i] = u
                  THEN CHOOSE i \in 1..Len(sq) : sq[i] = u /\ \A j \in 1..(i-1) : sq[j] # u
                  ELSE 0

\* C1: the number of URLs marked visited, which is the number of URLs fetched,
\* never exceeds maxPages; and when the seed page links to at least maxPages-1
\* distinct same-host pages, maxDepth >= 1 and every fetch succeeds, the run ends
\* with exactly maxPages pages visited: the seed and the first maxPages-1 of those
\* links in page order, whatever links follow.  (The pages counted are http(s)
\* URLs of the seed's host other than the seed string; "every fetch succeeds"
\* covers every fetch() call of the run: no page fetch and no POST to the
\* index throws, and every page is a 2xx text/html response.)
C1_PageCap ==
    /\ Cardinality(seen) <= maxPages
    /\ Len(fetched) = Cardinality(seen)
    /\ (cpc = "done" /\ allOk /\ maxDepth >= 1 /\ Len(seedLinks) >= maxPages - 1)
          => /\ Cardinality(seen) = maxPages
             /\ maxPages >= 1 =>
                   seen = {seed} \cup {seedLinks[i] : i \in 1..(maxPages - 1)}

\* C1 witness: a run capped at 2 pages whose seed links to 2 pages ended with
\* the seed and the first link visited and the second link left in the frontier
C1_Witness ==
    /\ cpc = "done" /\ allOk /\ maxDepth >= 1 /\ maxPages = 2
    /\ Len(seedLinks) = 2
    /\ seen = {seed, seedLinks[1]}
    /\ \E i \in 1..Len(queue) : queue[i].url = seedLinks[2]

\* C2: every task in the frontier has the seed's hostname, and so has every URL
\* fetched: a link to another hostname is never enqueued and never fetched.
C2_SameHost ==
    /\ \A i \in 1..Len(queue) : Hostname(queue[i].url) = Hostname(seed)
    /\ \A i \in 1..Len(fetched) : Hostname(fetched[i]) = Hostname(seed)

\* C2 witness: the links of a page holding a b.example link and a same-host link
\* have been enqueued
C2_Witness ==
    /\ cpc = "sleep"
    /\ cur.depth < maxDepth
    /\ \E i \in 1..Len(page) : page[i].kind = "abs" /\ page[i].host = OtherHost
    /\ Len(queue) > 0
    /\ Len(fetched) >= 2

\* every frontier task has 0 <= depth <= maxDepth, and with maxDepth = 0 nothing
\* but the seed is fetched
C3_Bound ==
    /\ \A i \in 1..Len(queue) : queue[i].depth \in 0..maxDepth
    /\ maxDepth = 0 => \A i \in 1..Len(fetched) : fetched[i] = seed

\* a step that grows the frontier appends tasks at the depth of the page being
\* processed plus one, and that page's depth is below maxDepth
C3_Step ==
    Len(queue') > Len(queue)
      => /\ SubSeq(queue', 1, Len(queue)) = queue
         /\ cur.depth < maxDepth
         /\ \A i \in (Len(queue) + 1)..Len(queue') : queue'[i].depth = cur.depth + 1

\* C3: in every reachable state every frontier task has 0 <= depth <= maxDepth;
\* links are enqueued only from a page of depth < maxDepth, always at depth+1;
\* with maxDepth = 0 only the seed is ever fetched.
C3_DepthBound == []C3_Bound /\ [][C3_Step]_vars

\* C3 witness: a page at depth maxDepth = 1 carrying a same-host link was
\* processed and its links were not enqueued
C3_Witness ==
    /\ cpc = "sleep" /\ maxDepth = 1 /\ cur.depth = 1
    /\ \E i \in 1..Len(page) : page[i].kind = "abs" /\ page[i].host = SeedHost
                                  /\ page[i].scheme = "https:"
                                  /\ ResolveHref(page[i], cur.url) \notin seen
    /\ \A i \in 1..Len(queue) : queue[i].depth = 1

\* C4: documents are emitted in breadth-first order: their depths are
\* non-decreasing, the pages found on the seed page are emitted in the order
\* their links appear there, every document carries the seed's hostname as
\* domain, and a seed linking to /p1 then /p2 crawled without failure at
\* maxDepth 1 and maxPages >= 3 yields the documents of /, /p1, /p2 in that order.
C4_BfsOrder ==
    /\ \A i, j \in 1..Len(docs) : i < j => docs[i].depth <= docs[j].depth
    /\ \A i, j \in 1..Len(docs) :
          (i < j /\ docs[i].depth = 1 /\ docs[j].depth = 1)
             => /\ IndexOf(seedLinks, docs[i].url) > 0
                /\ IndexOf(seedLinks, docs[i].url) < IndexOf(seedLinks, docs[j].url)
    /\ \A i \in 1..Len(docs) : docs[i].domain = Hostname(seed)
    /\ (cpc = "done" /\ allOk /\ maxDepth = 1 /\ maxPages >= 3
          /\ seedLinks = << MkUrl("https:", SeedHost, "/p1"),
                            MkUrl("https:", SeedHost, "/p2") >>)
         => Urls(docs) = << seed, MkUrl("https:", SeedHost, "/p1"),
                            MkUrl("https:", SeedHost, "/p2") >>

\* C4 witness: the run of the example has ended with its three documents
C4_Witness ==
    /\ cpc = "done" /\ allOk /\ maxDepth = 1 /\ maxPages = 3
    /\ Urls(docs) = << seed, MkUrl("https:", SeedHost, "/p1"),
                        MkUrl("https:", SeedHost, "/p2") >>
    /\ \A i \in 1..3 : docs[i].domain = SeedHost

\* C5: every crawl run terminates, given that every fetch and upsert call
\* returns or throws; when it has terminated the frontier is empty or the
\* visited count equals maxPages.
C5_Terminates ==
    /\ <>(cpc = "done")
    /\ [](cpc = "done" => (queue = <<>> \/ Cardinality(seen) = maxPages))

\* C5 witness: a run ended on the page cap with tasks left in the frontier
C5_Witness ==
    /\ cpc = "done" /\ queue # <<>> /\ maxPages >= 2
    /\ Cardinality(seen) = maxPages

\* C16: the outcome of an upsert has no effect on the traversal: whichever way
\* the POST of a page's document settles, the frontier afterwards is the
\* frontier before followed by the page's links when its depth is below
\* maxDepth, and unchanged otherwise.
C16_UpsertIndependent ==
    [][cpc = "upsert" =>
          queue' = IF cur.depth < maxDepth
                   THEN queue \o LinkTasks(page, cur.url, cur.depth, domain, seen)
                   ELSE queue]_vars

\* C17: the count a run reports when it ends is the number of documents it
\* emitted to the index; pages whose fetch failed, or returned a non-2xx
\* status or a non-HTML content type, are not counted.
C17_CountsIndexed ==
    cpc = "done" => ReportedCount(seen) = Len(docs)

\* C18: between the fetch of a dequeued page and the fetch of the next one
\* the 1-second delay runs to its end, however the first fetch ended.
C18_DelayBetweenFetches ==
    [][(Len(fetched') > Len(fetched) /\ fetched # <<>>) => delayed]_vars

\* at most one request is in flight, and none while the function is between
\* two tasks or in its delay
C19_Bound ==
    /\ inflight <= 1
    /\ cpc \in {"loop", "sleep", "done"} => inflight = 0

\* the step that issues the fetch of a task is taken with no request in flight
\* and the task before it ended
C19_Step ==
    Len(fetched') > Len(fetched)
       => /\ inflight = 0
          /\ fetched # <<>> => ended = 1

\* C19: within one crawl run at most one network request (page fetch or
\* upsert) is in flight at any time: the fetch of a task begins only after
\* the fetch and the upsert of the task before it have settled and its links
\* have been enqueued.
C19_OneInFlight == []C19_Bound /\ [][C19_Step]_vars

\* C19 witness: the POST of the second page's document is in flight, alone
C19_Witness ==
    /\ cpc = "upsert" /\ inflight = 1 /\ Len(fetched) = 2 /\ Len(docs) = 2

\* a task being fetched or upserted has ended in no outcome yet, a task that
\* has left them has ended in exactly one
C20_OneOutcome ==
    /\ cpc \in {"fetch", "upsert"} => ended = 0
    /\ (cpc \in {"loop", "sleep", "done"} /\ fetched # <<>>) => ended = 1

\* a fetch that throws, or returns a non-2xx status or a non-HTML content
\* type, emits no document, enqueues no link and leaves the run at the head
\* of its loop with the frontier as it was
C20_Step ==
    (cpc = "fetch" /\ cpc' # "upsert")
       => /\ docs' = docs /\ queue' = queue /\ seen' = seen
          /\ cpc' = "loop"
          /\ outcome' \in {"fetch_threw", "not_html"}

\* C20: every dequeued, not-yet-visited task reaches exactly one terminal
\* outcome; a task whose fetch throws, returns a non-2xx status or a non-HTML
\* content type emits no document and enqueues no links, and the run then
\* goes on from the head of its loop with the frontier it had, so with the
\* next task of the frontier.
C20_LocalFailure ==
    /\ []C20_OneOutcome
    /\ [][C20_Step]_vars
    /\ (cpc = "fetch") ~> (ended = 1)

\* C20 witness: the second task's fetch threw, and the third task, which was
\* behind it in the frontier, is being fetched
C20_Witness ==
    /\ cpc = "fetch" /\ outcome = "fetch_threw"
    /\ Len(fetched) = 3 /\ Len(docs) = 1

\* no URL string is fetched twice, and the URLs fetched are the visited set
C21_FetchedOnce ==
    /\ \A i, j \in 1..Len(fetched) : i < j => fetched[i] # fetched[j]
    /\ seen = { fetched[i] : i \in 1..Len(fetched) }

\* the visited set never loses a URL, and a step that dequeues a task whose
\* URL is visited drops it: nothing is fetched and the loop goes on
C21_Step ==
    /\ seen \subseteq seen'
    /\ (cpc = "loop" /\ queue # <<>> /\ queue' # queue /\ Head(queue).url \in seen)
          => /\ queue' = Tail(queue)
             /\ fetched' = fetched /\ seen' = seen
             /\ cpc' = "loop"

\* C21: within one crawl run the visited set only grows and every URL string
\* is fetched at most once: a task whose URL is already visited is dropped on
\* dequeue without a fetch, also when the URL was enqueued several times
\* before it was visited.
C21_VisitOnce == []C21_FetchedOnce /\ [][C21_Step]_vars

\* C21 witness: a URL enqueued twice has been fetched once, and its second
\* task stands at the head of the frontier of a loop that goes on
C21_Witness ==
    /\ cpc = "loop" /\ queue # <<>>
    /\ LoopCond(queue, seen, maxPages)
    /\ Head(queue).url \in seen
    /\ \E i \in 1..Len(fetched) : fetched[i] = Head(queue).url

\* C25: every document emitted has word_count equal to the number of
\* whitespace-delimited tokens in its text, including the case of empty text,
\* where word_count is 0.  (Stated of the document the crawl is POSTing; the
\* crawl emits a page whose body text is empty with word_count 1.)
C25_WordCountIsTokens ==
    cpc = "upsert" => word_count = text

----------------------------------------------------------------------------
(* allow(ip): the state machine *)

LimiterInit ==
    /\ SUBMIT_LIMIT \in 1..MaxLimit
    /\ now = 0
    /\ buckets = [ip \in {} |-> 0]
    /\ lastCall = NoCall
    /\ burst = [ip \in Ips |-> <<>>]
    /\ recent = [ip \in Ips |-> <<>>]
    /\ CrawlIdle
    /\ SubmitIdle
    /\ HandlersIdle

\* the times of sq later than t - MsPerMin
RECURSIVE WithinMinute(_, _)
WithinMinute(sq, t) ==
    IF sq = <<>> THEN <<>>
    ELSE IF Head(sq) > t - MsPerMin
         THEN <<Head(sq)>> \o WithinMinute(Tail(sq), t)
         ELSE WithinMinute(Tail(sq), t)

\* one call allow(ip), synchronous, made when Date.now() returns t: its effect
\* on the limiter
AllowAt(ip, t) ==
    LET b == GetBucket(buckets, ip, t, SUBMIT_LIMIT)
        r == AllowResult(buckets, ip, t, SUBMIT_LIMIT)
    IN  /\ now' = t
        /\ UNCHANGED SUBMIT_LIMIT
        /\ buckets' = [i \in DOMAIN buckets \cup {ip} |->
                          IF i = ip THEN r.bucket ELSE buckets[i]]
        /\ lastCall' = [ip |-> ip, existed |-> ip \in DOMAIN buckets,
                        waited |-> t - b.ts >= MsPerMin, ok |-> r.ok]
        /\ burst' = [burst EXCEPT ![ip] =
                        IF ip \notin DOMAIN buckets THEN <<r.ok>>
                        ELSE IF t > b.ts \/ @ = <<>> THEN <<>>
                        ELSE IF Len(@) < MaxBurst THEN Append(@, r.ok)
                        ELSE @]
        /\ recent' = [recent EXCEPT ![ip] =
                         IF r.ok THEN Append(WithinMinute(@, t), t)
                         ELSE WithinMinute(@, t)]

\* one call allow(ip) on its own
Allow(ip) ==
    /\ AllowAt(ip, now)
    /\ UNCHANGED <<crawlVars, submitVars, handlers>>

\* time passes: the next Date.now() is later by a whole number of ticks
Tick ==
    /\ \E k \in 1..MaxNow :
          /\ now + k * TickMs <= MaxNow * TickMs
          /\ now' = now + k * TickMs
    /\ UNCHANGED <<SUBMIT_LIMIT, buckets, lastCall, burst, recent>>
    /\ UNCHANGED <<crawlVars, submitVars, handlers>>

LimiterNext ==
    \/ \E ip \in Ips : Allow(ip)
    \/ Tick

LimiterSpec == LimiterInit /\ [][LimiterNext]_vars

----------------------------------------------------------------------------
(* Claims about allow(ip) *)

\* C6: for a client with no bucket and a positive integer capacity C, of the
\* calls made with no time elapsing the first C are admitted and the
\* (C+1)-th, like every later one, is denied.
C6_FirstBurst ==
    \A ip \in Ips :
       \A i \in 1..Len(burst[ip]) : burst[ip][i] = (i <= SUBMIT_LIMIT)

\* C6 witness: a new client has made C+1 calls at one instant
C6_Witness ==
    \E ip \in DOMAIN buckets :
       /\ SUBMIT_LIMIT >= 2
       /\ Len(burst[ip]) = SUBMIT_LIMIT + 1
       /\ buckets[ip].ts = now

\* C7: every stored bucket satisfies 0 <= tokens <= capacity.
C7_TokensInRange ==
    \A ip \in DOMAIN buckets :
       /\ buckets[ip].tokens >= 0
       /\ buckets[ip].tokens <= SUBMIT_LIMIT * OneToken

\* C7 witness: one bucket has been emptied, and another client has called at
\* different times, the last time after a minute or more
C7_Witness ==
    /\ lastCall.existed /\ lastCall.waited /\ SUBMIT_LIMIT >= 2
    /\ \E ip \in DOMAIN buckets : ip # lastCall.ip /\ buckets[ip].tokens = 0

\* C8: a call made at least one minute after the client's previous call finds
\* the bucket refilled to exactly the capacity C: it is admitted and leaves
\* C-1 tokens.
C8_FullAfterMinute ==
    (lastCall.existed /\ lastCall.waited)
       => /\ lastCall.ok
          /\ buckets[lastCall.ip].tokens = (SUBMIT_LIMIT - 1) * OneToken

\* C8 witness: a client called again a minute or more after its previous call
C8_Witness ==
    /\ lastCall.existed /\ lastCall.waited /\ lastCall.ok
    /\ buckets[lastCall.ip].ts = now

\* C9 as stated: within every one-minute window the limiter admits at most
\* SUBMIT_LIMIT calls of one client.
C9_AtMostCapacity ==
    \A ip \in Ips : Len(recent[ip]) <= SUBMIT_LIMIT

\* C9 as amended: within every window shorter than one minute the limiter
\* admits at most 2 * SUBMIT_LIMIT - 1 calls of one client (the tokens held
\* when the window opens plus the refill accrued during it).
C9_AtMostTwiceCapacity ==
    \A ip \in Ips : Len(recent[ip]) <= 2 * SUBMIT_LIMIT - 1

\* C9 witness: a client has been admitted 2 * SUBMIT_LIMIT - 1 times within
\* less than a minute
C9_Witness ==
    \E ip \in Ips :
       /\ SUBMIT_LIMIT >= 2
       /\ Len(recent[ip]) = 2 * SUBMIT_LIMIT - 1
       /\ recent[ip][Len(recent[ip])] - recent[ip][1] < MsPerMin

\* the tokens a call at time t finds for ip after the refill: the capacity for
\* a client with no bucket, else min(capacity, tokens + elapsed * capacity)
TokensFound(ip, t) ==
    IF ip \in DOMAIN buckets
    THEN Min(SUBMIT_LIMIT * OneToken,
             buckets[ip].tokens + (t - buckets[ip].ts) * SUBMIT_LIMIT)
    ELSE SUBMIT_LIMIT * OneToken

\* a call of allow (the clock stands still during it) stores, for the client
\* that called, the call time and the refilled tokens: all of them when it is
\* denied, which is when they are less than 1, and one less when it is admitted
C22_Step ==
    (now' = now /\ lastCall' # NoCall)
       => LET ip == lastCall'.ip
              found == TokensFound(ip, now)
          IN  /\ buckets'[ip].ts = now
              /\ lastCall'.ok = (found >= OneToken)
              /\ buckets'[ip].tokens = IF lastCall'.ok THEN found - OneToken ELSE found
              /\ \A o \in DOMAIN buckets : o # ip => buckets'[o] = buckets[o]

\* C22: a denied admit call consumes no token but still persists the refill:
\* the stored bucket holds min(capacity, previous tokens + elapsed minutes *
\* capacity) and the call time, so the refill accrued across denied calls is
\* kept and the client is admitted once the tokens reach 1; an admitted call
\* stores that refilled value minus 1.
C22_RefillPersisted == [][C22_Step]_vars

\* C22 witness: with capacity 1, a client is admitted less than a minute
\* after a call that was denied, on the tokens accrued before and after that
\* denied call, which add up to exactly 1
C22_Witness ==
    /\ SUBMIT_LIMIT = 1
    /\ lastCall.ok /\ lastCall.existed /\ ~lastCall.waited
    /\ buckets[lastCall.ip].tokens = 0
    /\ buckets[lastCall.ip].ts = now

----------------------------------------------------------------------------
(* POST /submit of src/index.js: the state machine, one request at a time *)

SubmitInit == SubmitIdle /\ CrawlIdle /\ LimiterIdle /\ HandlersIdle

\* index.js:150-154: the response that follows the return of the POST to the index
AfterUpsert_IgnoreStatus(upOk) == Response(200, "ok", "")
AfterUpsert(upOk) ==
    IF upOk THEN Response(200, "ok", "") ELSE Response(500, "error", "index_failed")

\* the response is sent and the handler returns
Respond(code, status, reason) ==
    /\ responses' = Append(responses, Response(code, status, reason))
    /\ spc' = "done"

\* index.js:92-98: a request arrives; the url is read and parsed, the robots
\* fetch is issued
Receive ==
    /\ spc \in {"idle", "done"}
    /\ \E url \in SubmitUrls :
          /\ sUrl' = url
          /\ IF url = ""
             THEN /\ responses' = <<Response(400, "error", "missing_url")>>
                  /\ spc' = "done"
             ELSE IF ~UrlValid(url)
             THEN /\ responses' = <<Response(500, "error", "exception")>>
                  /\ spc' = "done"
             ELSE /\ responses' = <<>>
                  /\ spc' = "robots"
    /\ robotsRes' = NoRobots /\ robotsTxt' = <<>>
    /\ attempts' = 0 /\ waits' = 0 /\ statuses' = <<>> /\ wordCount' = 0
    /\ posted' = <<>> /\ upStatus' = "none"
    /\ UNCHANGED index
    /\ UNCHANGED <<crawlVars, limiterVars, handlers>>

\* index.js:98-104: the robots fetch settles; blocked, or fetch(url) is issued
RobotsSettles ==
    /\ spc = "robots"
    /\ \E r \in RobotsOutcomes :
          /\ robotsRes' = r
          /\ robotsTxt' = RobotsText(r)
          /\ IF DisallowAll(RobotsText(r))
             THEN /\ Respond(200, "skipped", "blocked")
                  /\ UNCHANGED attempts
             ELSE /\ spc' = "fetch1"
                  /\ attempts' = attempts + 1
                  /\ UNCHANGED responses
    /\ UNCHANGED <<sUrl, waits, statuses, wordCount, posted, upStatus, index>>
    /\ UNCHANGED <<crawlVars, limiterVars, handlers>>

\* index.js:104, 107: fetch(url) throws; catch (e)
SubmitFetchThrows ==
    /\ spc \in {"fetch1", "fetch2"}
    /\ Respond(500, "error", "exception")
    /\ UNCHANGED <<sUrl, robotsRes, robotsTxt, attempts, waits, statuses, wordCount,
                   posted, upStatus, index>>
    /\ UNCHANGED <<crawlVars, limiterVars, handlers>>

\* index.js:104-113: fetch(url) returns a status
SubmitFetchReturns ==
    /\ spc \in {"fetch1", "fetch2"}
    /\ \E st \in Statuses :
          /\ statuses' = Append(statuses, st)
          /\ LET then == AfterStatus(IF spc = "fetch1" THEN 1 ELSE 2, st)
             IN  CASE then = "backoff" ->
                        /\ spc' = "backoff"
                        /\ waits' = waits + 1
                        /\ UNCHANGED responses
                   [] then = "rate_limited" ->
                        /\ Respond(429, "error", "rate_limited")
                        /\ UNCHANGED waits
                   [] then = "http_error" ->
                        /\ Respond(400, "error", "http_" \o ToString(st))
                        /\ UNCHANGED waits
                   [] OTHER ->
                        /\ spc' = "body"
                        /\ UNCHANGED <<waits, responses>>
    /\ UNCHANGED <<sUrl, robotsRes, robotsTxt, attempts, wordCount, posted, upStatus, index>>
    /\ UNCHANGED <<crawlVars, limiterVars, handlers>>

\* index.js:106-107: the 1500 ms timer fires; fetch(url) is issued again
BackoffDone ==
    /\ spc = "backoff"
    /\ spc' = "fetch2"
    /\ attempts' = attempts + 1
    /\ UNCHANGED <<sUrl, robotsRes, robotsTxt, waits, statuses, wordCount, posted,
                   upStatus, responses, index>>
    /\ UNCHANGED <<crawlVars, limiterVars, handlers>>

\* index.js:113: resp.text() rejects; catch (e)
BodyThrows ==
    /\ spc = "body"
    /\ Respond(500, "error", "exception")
    /\ UNCHANGED <<sUrl, robotsRes, robotsTxt, attempts, waits, statuses, wordCount,
                   posted, upStatus, index>>
    /\ UNCHANGED <<crawlVars, limiterVars, handlers>>

\* index.js:113-148: the body is read and parsed; too short, or the POST is issued
BodyRead ==
    /\ spc = "body"
    /\ \E n \in TokenCounts :
          /\ wordCount' = WordCount(n)
          /\ IF WordCount(n) < MinWords
             THEN /\ Respond(200, "skipped", "too_short")
                  /\ UNCHANGED posted
             ELSE /\ posted' = Append(posted, SubmitDoc(sUrl, WordCount(n)))
                  /\ spc' = "upsert"
                  /\ UNCHANGED responses
    /\ UNCHANGED <<sUrl, robotsRes, robotsTxt, attempts, waits, statuses, upStatus, index>>
    /\ UNCHANGED <<crawlVars, limiterVars, handlers>>

\* index.js:144: the POST to the index throws; catch (e)
SubmitUpsertThrows ==
    /\ spc = "upsert"
    /\ upStatus' = "threw"
    /\ Respond(500, "error", "exception")
    /\ UNCHANGED <<sUrl, robotsRes, robotsTxt, attempts, waits, statuses, wordCount,
                   posted, index>>
    /\ UNCHANGED <<crawlVars, limiterVars, handlers>>

\* index.js:144-154: the POST returns; index_failed (after up.text()), or ok
SubmitUpsertReturns ==
    /\ spc = "upsert"
    /\ \E upOk \in BOOLEAN :
          /\ upStatus' = IF upOk THEN "ok" ELSE "not_ok"
          /\ index' = IF upOk THEN Upsert(index, posted[Len(posted)]) ELSE index
          /\ responses' = Append(responses, AfterUpsert(upOk))
          /\ spc' = "done"
    /\ UNCHANGED <<sUrl, robotsRes, robotsTxt, attempts, waits, statuses, wordCount,
                   posted>>
    /\ UNCHANGED <<crawlVars, limiterVars, handlers>>

SubmitNext ==
    \/ Receive
    \/ RobotsSettles
    \/ SubmitFetchThrows
    \/ SubmitFetchReturns
    \/ BackoffDone
    \/ BodyThrows
    \/ BodyRead
    \/ SubmitUpsertThrows
    \/ SubmitUpsertReturns

SubmitSpec == SubmitInit /\ [][SubmitNext]_vars

----------------------------------------------------------------------------
(* Claims about POST /submit of src/index.js *)

\* the reason of the response sent, "" when none has been sent
Reason == IF responses = <<>> THEN "" ELSE responses[Len(responses)].reason

\* C10: the target URL is fetched at most twice per request; a first response
\* of 429 or 503 is followed by one backoff wait and exactly one retry;
\* [429|503, 429|503] ends in error rate_limited after exactly two attempts,
\* [429|503, 2xx] proceeds to extraction after exactly two attempts, and any
\* other non-2xx response ends in error http_<status> with no further attempt.
C10_SingleRetry ==
    /\ attempts <= 2 /\ waits <= 1 /\ Len(statuses) <= attempts
    /\ Len(statuses) >= 1 =>
          IF IsBackoffStatus(statuses[1])
          THEN /\ waits = 1
               /\ attempts = IF spc = "backoff" THEN 1 ELSE 2
          ELSE /\ waits = 0 /\ attempts = 1
    /\ (Len(statuses) = 2 /\ statuses[2] \in {429, 503})
          => /\ attempts = 2 /\ spc = "done"
             /\ responses = <<Response(429, "error", "rate_limited")>>
    /\ (Len(statuses) = 2 /\ RespOk(statuses[2]))
          => /\ attempts = 2
             /\ spc \in {"body", "upsert", "done"}
             /\ Reason \notin {"rate_limited", "http_200"}
    /\ \A i \in 1..Len(statuses) :
          (statuses[i] \notin {429, 503} /\ ~RespOk(statuses[i]))
             => /\ i = Len(statuses) /\ attempts = i /\ spc = "done"
                /\ responses = <<Response(400, "error", "http_" \o ToString(statuses[i]))>>

\* C10 witness: the answers 503 then 200 were received and the document built
\* from the second one is being upserted
C10_Witness ==
    /\ statuses = <<503, 200>> /\ attempts = 2 /\ waits = 1
    /\ spc = "upsert" /\ Len(posted) = 1

\* a line the robots policy names: `Disallow: /` in any letter case, with any
\* surrounding white space
BlockingLine(l) == l \in {"Disallow: /", "  DISALLOW: /\r"}

\* the robots.txt fetched is a 2xx answer holding such a line
RobotsBlocks ==
    /\ robotsRes.res = "ok"
    /\ \E i \in 1..Len(robotsRes.body) : BlockingLine(robotsRes.body[i])

\* C11: once the robots.txt fetch has settled: if the robots.txt fetched holds
\* a line that trimmed and lower-cased equals "disallow: /", the request has
\* ended in skipped/blocked with no fetch of the target page and no upsert; if
\* the robots.txt was unreachable, non-2xx or holds no such line, the target
\* page has been fetched and the request does not end in blocked.
C11_RobotsPolicy ==
    robotsRes.res # "none" =>
       IF RobotsBlocks
       THEN /\ spc = "done"
            /\ responses = <<Response(200, "skipped", "blocked")>>
            /\ attempts = 0 /\ statuses = <<>> /\ posted = <<>>
       ELSE /\ attempts >= 1
            /\ Reason # "blocked"

\* C11 witness: a robots.txt answered with a non-2xx status and a body holding
\* `Disallow: /` did not stop the request, whose document has been upserted
C11_Witness ==
    /\ robotsRes.res = "non2xx"
    /\ \E i \in 1..Len(robotsRes.body) : BlockingLine(robotsRes.body[i])
    /\ spc = "done" /\ Reason = "" /\ Len(posted) = 1

\* the blocking case: a 2xx robots.txt holding "  DISALLOW: /\r" after a line
\* that does not block has ended the request in skipped/blocked
C11_BlockedReached ==
    /\ robotsRes.res = "ok" /\ Len(robotsRes.body) = 2
    /\ robotsRes.body[2] = "  DISALLOW: /\r" /\ robotsRes.body[1] = "Disallow: /private"
    /\ Reason = "blocked"

\* the ids under which the index holds a document of url u
EntriesOf(idx, u) == { i \in DOMAIN idx : idx[i].url = u }

\* in every state the index holds at most one entry per url, and a document
\* being upserted carries the id of the entry the index holds for its url
C13_OneEntry ==
    /\ \A u \in SubmitUrls : Cardinality(EntriesOf(index, u)) <= 1
    /\ \A i \in 1..Len(posted) : EntriesOf(index, posted[i].url) \subseteq {posted[i].id}
    /\ CrawlId(MkUrl("https:", SeedHost, "/p1")) = SafeId("https://a.example/p1")

\* a step that answers ok leaves exactly one entry for the url submitted and
\* the entries of all other urls as they were
C13_Step ==
    (spc = "upsert" /\ spc' = "done" /\ responses' = <<Response(200, "ok", "")>>)
       => /\ Cardinality(EntriesOf(index', sUrl)) = 1
          /\ \A i \in DOMAIN index :
                index[i].url # sUrl => (i \in DOMAIN index' /\ index'[i] = index[i])

\* C13: the document id is a function of the URL string alone: every
\* submission of one URL string upserts a document with the same id, which is
\* also the id the crawler gives that URL, so the index, keyed by id, holds
\* exactly one entry for the URL after any sequence of successful submissions
\* of it, and the entries of other URLs are left alone.
C13_StableId == []C13_OneEntry /\ [][C13_Step]_vars

\* C13 witness: a URL the index already holds has been submitted again, and
\* the document now being upserted carries the id of the entry held, next to
\* the entry of another URL
C13_Witness ==
    /\ spc = "upsert" /\ Len(posted) = 1
    /\ posted[1].id \in DOMAIN index
    /\ index[posted[1].id].url = sUrl
    /\ Cardinality(DOMAIN index) = 2

\* the request being handled has caused network activity: its robots.txt
\* fetch has been issued
NetworkActivity == spc = "robots" \/ robotsRes.res # "none"

\* C15: every submission request passes the limiter's admit before any
\* network activity: a request that has fetched robots.txt or the target page,
\* or has upserted a document, was admitted by a call of allow first.
C15_AdmitFirst ==
    (NetworkActivity \/ attempts >= 1 \/ posted # <<>>) => lastCall.ok

\* the request ended in skipped (blocked, too_short) or in error missing_url,
\* rate_limited or http_<code>
EndsWithoutUpsert ==
    /\ spc = "done" /\ responses # <<>>
    /\ \/ /\ responses[Len(responses)].status = "skipped"
          /\ Reason \in {"blocked", "too_short"}
       \/ /\ responses[Len(responses)].status = "error"
          /\ \/ Reason \in {"missing_url", "rate_limited"}
             \/ \E st \in Statuses : Reason = "http_" \o ToString(st)

\* C24 (state part): at most one document is POSTed per request, and only a
\* POST that was made settles; a finished request answered ok exactly when its
\* POST returned success; a request that ended in skipped or in error
\* missing_url, rate_limited or http_<code> made no POST; a POST that returned
\* a non-success status is answered error index_failed.
C24_OneUpsert ==
    /\ Len(posted) <= 1
    /\ upStatus # "none" => Len(posted) = 1 /\ spc = "done"
    /\ spc = "done" =>
          /\ Len(responses) = 1
          /\ responses[1].status = "ok" <=> upStatus = "ok"
          /\ upStatus = "not_ok" =>
                responses[1] = Response(500, "error", "index_failed")
    /\ EndsWithoutUpsert => posted = <<>> /\ upStatus = "none"

\* C24 (step part): the index changes only in the step in which the POST
\* returns success and the request is answered ok, and then by the one
\* document the request POSTed.
C24_Step ==
    index' # index =>
       /\ spc = "upsert" /\ spc' = "done"
       /\ upStatus' = "ok" /\ responses'[1].status = "ok"
       /\ index' = Upsert(index, posted[1])

\* C24: a submission makes at most one upsert call, and the response is ok if
\* and only if that upsert call returned success: every request that ends in
\* skipped (blocked, too_short) or in error missing_url, rate_limited,
\* http_<code> made no upsert call and leaves the index unchanged, and an
\* upsert that returns a non-success status yields error index_failed.
C24_UpsertDecides == []C24_OneUpsert /\ [][C24_Step]_vars

\* a second submission whose POST returned a non-success status, after a first
\* one was indexed
C24_Witness ==
    /\ spc = "done" /\ upStatus = "not_ok" /\ Reason = "index_failed"
    /\ Len(posted) = 1 /\ index # <<>> /\ posted[1].id \notin DOMAIN index

----------------------------------------------------------------------------
(* POST /submit of src/unnamed/part_003:131-176 (the same handler stands at  *)
(* part_000:106-148 and part_004:96-138): allow(ip), then the page fetch and *)
(* the upsert, with no try/catch around them.  Several requests are handled  *)
(* at once; a handler runs from one await to the next without interruption.  *)

Requests == 1..MaxRequests

\* the url values a request body carries: missing, unparsable, a page
LimitedUrls == {"", "not a url", "https://a.example/p1"}

\* a request that has not arrived yet
NewRequest ==
    [pc |-> "new", ip |-> "", url |-> "", text |-> 0, admitted |-> FALSE,
     sent |-> <<>>, responses |-> <<>>]

\* the outcomes of fetch(url) within fetchPageText: it throws (always, for an
\* unparsable url), or an answer arrives whose body holds a text of n tokens
PageOutcomes(url) ==
    { [res |-> "throws", tokens |-> 0] }
    \cup (IF url = "not a url" THEN {}
          ELSE { [res |-> st, tokens |-> n] : st \in {"non2xx", "ok"}, n \in TokenCounts })

\* fetchPageText(url).text, as its number of tokens: "" unless the answer is 2xx
FetchPageText(o) == IF o.res = "ok" THEN o.tokens ELSE 0

\* crypto.createHash("sha1").update(url).digest("hex") : one id per url string
Sha1Id(url) == url

\* the document built at part_003:147-155 (id, url and the tokens of its text)
LimitedDoc(url, n) == [id |-> Sha1Id(url), url |-> url, tokens |-> n]

\* what becomes of a request whose handler's promise rejects: Express 4 leaves
\* it unanswered, Express 5 answers with its default error page
EscapeOutcomes == { <<>>, <<Response(500, "", "")>> }

LimitedInit ==
    /\ handlers = [r \in Requests |-> NewRequest]
    /\ SUBMIT_LIMIT \in 1..MaxLimit
    /\ now = 0
    /\ buckets = [ip \in {} |-> 0]
    /\ lastCall = NoCall
    /\ burst = [ip \in Ips |-> <<>>]
    /\ recent = [ip \in Ips |-> <<>>]
    /\ CrawlIdle
    /\ SubmitIdle

\* the values Date.now() can return at the next call of allow, the only place
\* where the clock is read: the time of the previous call, or one tick later
\* mutant: the url is validated before the value of allow(ip) is looked at
EarlyReturn_UrlFirst(ok, url) ==
    IF url = "" THEN <<Response(400, "error", "missing_url")>>
    ELSE IF ~ok THEN <<Response(429, "error", "rate_limited")>>
    ELSE <<>>

\* part_003:134-139: the responses sent by the early returns of the handler,
\* given the value of allow(ip) and the url of the body; none when it goes on
EarlyReturn(ok, url) ==
    IF ~ok THEN <<Response(429, "error", "rate_limited")>>
    ELSE IF url = "" THEN <<Response(400, "error", "missing_url")>>
    ELSE <<>>

ArrivalTimes == { t \in {now, now + TickMs} : t <= MaxNow * TickMs }

\* part_003:131-145: the request arrives; allow(ip); rate_limited, missing_url,
\* or fetchPageText(url) is called.  Requests are numbered in order of arrival.
Arrive(r) ==
    /\ handlers[r].pc = "new"
    /\ \A q \in 1..(r - 1) : handlers[q].pc # "new"
    /\ \E ip \in Ips, url \in LimitedUrls, t \in ArrivalTimes :
          /\ AllowAt(ip, t)
          /\ LET ok == AllowResult(buckets, ip, t, SUBMIT_LIMIT).ok
                 h == [handlers[r] EXCEPT !.ip = ip, !.url = url, !.admitted = ok]
                 early == EarlyReturn(ok, url)
             IN  handlers' = [handlers EXCEPT ![r] =
                    IF early # <<>>
                    THEN [h EXCEPT !.pc = "done", !.responses = early]
                    ELSE [h EXCEPT !.pc = "page"]]
    /\ UNCHANGED <<crawlVars, submitVars>>

\* part_003:145-164: fetchPageText settles (it never throws); the document is
\* built and its POST to the index issued
PageSettles(r) ==
    /\ handlers[r].pc = "page"
    /\ \E o \in PageOutcomes(handlers[r].url) :
          handlers' = [handlers EXCEPT ![r] =
             [@ EXCEPT !.pc = "upsert",
                       !.text = FetchPageText(o),
                       !.sent = Append(@, LimitedDoc(handlers[r].url, FetchPageText(o)))]]
    /\ UNCHANGED <<crawlVars, limiterVars, submitVars>>

\* part_003:157: the POST to the index throws; nothing catches it
LimitedUpsertThrows(r) ==
    /\ handlers[r].pc = "upsert"
    /\ \E e \in EscapeOutcomes :
          handlers' = [handlers EXCEPT ![r] = [@ EXCEPT !.pc = "escaped", !.responses = e]]
    /\ UNCHANGED <<crawlVars, limiterVars, submitVars>>

\* part_003:157-175: the POST returns; index_failed (after r.text()), or ok
LimitedUpsertReturns(r) ==
    /\ handlers[r].pc = "upsert"
    /\ \E upOk \in BOOLEAN :
          handlers' = [handlers EXCEPT ![r] =
             [@ EXCEPT !.pc = "done",
                       !.responses = IF upOk THEN <<Response(200, "ok", "")>>
                                     ELSE <<Response(500, "error", "index_failed")>>]]
    /\ UNCHANGED <<crawlVars, limiterVars, submitVars>>

LimitedNext ==
    \/ \E r \in Requests : Arrive(r)
    \/ \E r \in Requests : PageSettles(r)
    \/ \E r \in Requests : LimitedUpsertThrows(r)
    \/ \E r \in Requests : LimitedUpsertReturns(r)

LimitedSubmitSpec == LimitedInit /\ [][LimitedNext]_vars

----------------------------------------------------------------------------
(* Claims about POST /submit behind allow(ip), src/unnamed/part_003 *)

\* C12: on the submission path every document upserted has a text of at least
\* 30 whitespace-delimited tokens: a request whose extracted text has fewer
\* than 30 tokens ends in skipped/too_short with no upsert.
C12_WordGate ==
    \A r \in DOMAIN handlers :
       /\ \A i \in 1..Len(handlers[r].sent) :
             WordCount(handlers[r].sent[i].tokens) >= MinWords
       /\ (handlers[r].pc \in {"upsert", "done", "escaped"} /\ handlers[r].url # ""
             /\ handlers[r].admitted /\ WordCount(handlers[r].text) < MinWords)
            => /\ handlers[r].sent = <<>>
               /\ handlers[r].pc = "done"
               /\ handlers[r].responses = <<Response(200, "skipped", "too_short")>>

\* the closed set of answers of the submission endpoint, as <<status, reason>>
ClosedAnswers ==
    { <<"ok", "">>, <<"skipped", "blocked">>, <<"skipped", "too_short">>,
      <<"error", "missing_url">>, <<"error", "rate_limited">>,
      <<"error", "index_failed">>, <<"error", "exception">> }
    \cup { <<"error", "http_" \o ToString(st)>> : st \in Statuses }

\* C14: every submission request receives exactly one response, one of the
\* closed set; no failure of a fetch or of the upsert call leaves a request
\* whose handler has ended unanswered or answered by a raw exception.
C14_ClosedResponses ==
    \A r \in DOMAIN handlers :
       /\ Len(handlers[r].responses) <= 1
       /\ handlers[r].pc \in {"done", "escaped"} => Len(handlers[r].responses) = 1
       /\ \A i \in 1..Len(handlers[r].responses) :
             <<handlers[r].responses[i].status, handlers[r].responses[i].reason>>
                \in ClosedAnswers

\* the requests of client ip that have arrived, and those of them admitted
ArrivedFrom(ip) == { r \in DOMAIN handlers : handlers[r].pc # "new" /\ handlers[r].ip = ip }
AdmittedFrom(ip) == { r \in ArrivedFrom(ip) : handlers[r].admitted }

\* while no time has elapsed, of the N requests a client has sent exactly
\* min(N, capacity) are admitted, whatever the other handlers were doing, and
\* its bucket holds the capacity less one token per request admitted
C23_NoLostUpdate ==
    now = 0 =>
       \A ip \in Ips :
          /\ Cardinality(AdmittedFrom(ip))
                = Min(Cardinality(ArrivedFrom(ip)), SUBMIT_LIMIT)
          /\ ip \in DOMAIN buckets <=> ArrivedFrom(ip) # {}
          /\ ip \in DOMAIN buckets =>
                buckets[ip].tokens
                   = (SUBMIT_LIMIT - Cardinality(AdmittedFrom(ip))) * OneToken

\* a bucket changes only in the step in which a request of its own client
\* arrives: no handler resumed after an await, and no request of another
\* client, writes it
C23_Step ==
    \A ip \in DOMAIN buckets' :
       (ip \notin DOMAIN buckets \/ buckets'[ip] # buckets[ip])
          => \E r \in DOMAIN handlers :
                /\ handlers[r].pc = "new" /\ handlers'[r].pc # "new"
                /\ handlers'[r].ip = ip

\* C23: under any interleaving of concurrently handled /submit requests each
\* admit call's read-refill-consume-write on a bucket is atomic, so no update
\* is lost: of N requests of one client arriving with k whole tokens and no
\* time elapsing exactly min(N, k) are admitted, and the requests of one
\* client never change the bucket of another.
C23_AtomicAdmit == []C23_NoLostUpdate /\ [][C23_Step]_vars

\* C23 witness: with capacity 1, the second request of a client arrived while
\* the handler of its first was suspended at an await, and was denied
C23_Witness ==
    /\ SUBMIT_LIMIT = 1 /\ now = 0 /\ MaxRequests >= 2
    /\ handlers[1].pc \in {"page", "upsert"} /\ handlers[1].admitted
    /\ handlers[2].pc = "done" /\ ~handlers[2].admitted
    /\ handlers[2].ip = handlers[1].ip

\* the step in which request r arrives
Arrives(r) == handlers[r].pc = "new" /\ handlers'[r].pc # "new"

\* C26 (step part): when a request with a missing url arrives, allow has run
\* for its client at the time of arrival; if the client held at least one
\* token then, one token is taken and the request ends in error missing_url;
\* if it held less than one, its tokens are stored as found and the request
\* ends in error rate_limited.
C26_Step ==
    \A r \in DOMAIN handlers :
       (Arrives(r) /\ handlers'[r].url = "") =>
          LET ip == handlers'[r].ip
              held == TokensFound(ip, now')
          IN  /\ handlers'[r].pc = "done"
              /\ lastCall'.ip = ip
              /\ buckets'[ip].ts = now'
              /\ IF held >= OneToken
                 THEN /\ handlers'[r].responses = <<Response(400, "error", "missing_url")>>
                      /\ handlers'[r].admitted
                      /\ buckets'[ip].tokens = held - OneToken
                 ELSE /\ handlers'[r].responses = <<Response(429, "error", "rate_limited")>>
                      /\ ~handlers'[r].admitted
                      /\ buckets'[ip].tokens = held

\* C26 (state part): a request answered missing_url was admitted, and a
\* request with a missing url that was not admitted was answered rate_limited
C26_Answered ==
    \A r \in DOMAIN handlers :
       /\ (handlers[r].responses # <<>> /\ handlers[r].responses[1].reason = "missing_url")
             => handlers[r].admitted /\ handlers[r].url = ""
       /\ (handlers[r].pc # "new" /\ handlers[r].url = "" /\ ~handlers[r].admitted)
             => handlers[r].responses = <<Response(429, "error", "rate_limited")>>

\* C26: in the rate-limited /submit handler the admission decision precedes
\* URL validation: a request with a missing url from a client holding at
\* least one token consumes one token and ends in error missing_url, and a
\* request with a missing url from a client holding less than one token ends
\* in error rate_limited, never missing_url.
C26_AdmitBeforeUrl == []C26_Answered /\ [][C26_Step]_vars

\* a capacity of one token per minute: the first request, with a missing url,
\* took it and ended in missing_url; the second, of the same client and with a
\* missing url too, came one tick later, found a third of a token and ended in
\* rate_limited
C26_Witness ==
    /\ SUBMIT_LIMIT = 1 /\ MaxRequests >= 2 /\ now = TickMs
    /\ handlers[1].url = "" /\ handlers[1].admitted
    /\ handlers[1].responses = <<Response(400, "error", "missing_url")>>
    /\ handlers[2].pc = "done" /\ handlers[2].url = "" /\ ~handlers[2].admitted
    /\ handlers[2].ip = handlers[1].ip
    /\ handlers[2].responses = <<Response(429, "error", "rate_limited")>>
    /\ buckets[handlers[2].ip].tokens = TickMs

====
